---- MODULE Spec2Model ----
(***************************************************************************)
(* Model of src/main.py: the Streamlit script of the OneSIP OCR page.      *)
(*                                                                         *)
(* The script is re-run from top to bottom on every interaction.  The runs *)
(* modelled are those triggered by the "Clear All" and the "Process"       *)
(* buttons; a run triggered by any other widget executes none of lines     *)
(* 95-145 and leaves st.session_state as it is.  st.session_state          *)
(* (ocr_result, preview_src, reset_uploader) survives between runs,        *)
(* everything else is local to a run.  The run triggered by "Process" is   *)
(* modelled one loop iteration at a time (pc = "loop"); the script is      *)
(* single-threaded, so no other run of the session starts before the loop  *)
(* has ended.                                                              *)
(*                                                                         *)
(* Text is a sequence of one-character strings, so that strip, split,      *)
(* join and the f-string prefix are computed as Python computes them.      *)
(* The bytes of an uploaded file are kept as their identity and their      *)
(* exact length; base64 keeps the identity and maps the length.            *)
(***************************************************************************)
EXTENDS Integers, Sequences, FiniteSets, TLC

\* ------------------------------------------------------------------ bounds
MaxUrlLen == 3
MaxFiles == 2
MaxPages == 2
MaxClears == 2

\* --------------------------------------------------------------- constants
MAX_UPLOAD_MB == 20

NoResultFound ==
    <<"N","o"," ","r","e","s","u","l","t"," ","f","o","u","n","d",".">>

ErrorPrefix ==
    <<"E","r","r","o","r"," ","e","x","t","r","a","c","t","i","n","g"," ",
      "r","e","s","u","l","t",":"," ">>

PageSeparator == <<"\n", "\n">>

UrlError == "Please enter at least one valid PDF URL."
UploadError == "Please upload at least one PDF file."
NoError == ""

DataUrlPrefix == "data:application/pdf;base64,"

SourceTypes == {"URL", "Local Upload"}

\* ------------------------------------------------------------ input space
BoundedSeq(S, n) == UNION {[1..k -> S] : k \in 0..n}

\* Characters of the URL text area: a letter, a blank and a line break.
UrlChars == {"a", " ", "\n"}

\* What str.strip() removes, within UrlChars.
Whitespace == {" ", "\n"}

UrlTexts == BoundedSeq(UrlChars, MaxUrlLen)

FileNames == {"f.pdf", "g.pdf"}

\* Lengths of uploads: one exactly at the limit, one a byte over it.
FileLengths == {MAX_UPLOAD_MB * (1024 * 1024), MAX_UPLOAD_MB * (1024 * 1024) + 1}

\* An UploadedFile: its name and what read() returns.
UploadedFiles ==
    {[name |-> n, bytes |-> [id |-> n, len |-> l]] : n \in FileNames, l \in FileLengths}

FileSeqs == BoundedSeq(UploadedFiles, MaxFiles)

\* What one run reads from the widgets: the radio, and the text area or the
\* uploader (the other one keeps its initial value of lines 74-75).
Inputs ==
    {[source_type |-> "URL", input_url |-> u, uploaded_files |-> <<>>] : u \in UrlTexts}
    \cup
    {[source_type |-> "Local Upload", input_url |-> <<>>, uploaded_files |-> fs] :
        fs \in FileSeqs}

\* ------------------------------------------------- the OCR service (environment)
PageTexts == {<<>>, <<"x">>, <<"y">>}

\* A page of a response: with a markdown attribute, or without one.
Pages == {[markdown |-> t] : t \in PageTexts} \cup {[index |-> 0]}

PageSeqs == BoundedSeq(Pages, MaxPages)

\* What client.ocr.process does: raise, or return an object with a pages
\* attribute, a bare list, or an object without pages.
AllOutcomes ==
    {[kind |-> "raise", msg |-> <<"4", "2", "9">>]}
    \cup {[kind |-> "object", pages |-> ps] : ps \in PageSeqs}
    \cup {[kind |-> "list", items |-> ps] : ps \in PageSeqs}
    \cup {[kind |-> "object"]}

\* The outcomes drawn in batches: a raising call, an empty page list, a page
\* of text and a page that lacks markdown.
BatchOutcomes ==
    {[kind |-> "raise", msg |-> <<"4", "2", "9">>],
     [kind |-> "object", pages |-> <<>>],
     [kind |-> "object", pages |-> <<[markdown |-> <<"x">>]>>],
     [kind |-> "object", pages |-> <<[index |-> 0]>>]}

\* str(e) of the AttributeError raised by page.markdown on a page without it.
AttributeErrorMsg == <<"n", "o", " ", "m", "a", "r", "k", "d", "o", "w", "n">>

\* ------------------------------------------------------ string functions
RECURSIVE LStrip(_)
LStrip(s) ==
    IF s = <<>> THEN s
    ELSE IF Head(s) \in Whitespace THEN LStrip(Tail(s)) ELSE s

RECURSIVE RStrip(_)
RStrip(s) ==
    IF s = <<>> THEN s
    ELSE IF s[Len(s)] \in Whitespace THEN RStrip(SubSeq(s, 1, Len(s) - 1)) ELSE s

\* str.strip()
Strip(s) == RStrip(LStrip(s))

\* str.split("\n"): one line more than there are line breaks, "" gives [""].
RECURSIVE SplitLines(_)
SplitLines(s) ==
    IF \A i \in DOMAIN s : s[i] # "\n" THEN <<s>>
    ELSE LET i == CHOOSE k \in DOMAIN s :
                    s[k] = "\n" /\ \A j \in 1..(k - 1) : s[j] # "\n"
         IN  <<SubSeq(s, 1, i - 1)>> \o SplitLines(SubSeq(s, i + 1, Len(s)))

\* "\n\n".join(page.markdown for page in pages)
RECURSIVE JoinMarkdown(_)
JoinMarkdown(pages) ==
    IF pages = <<>> THEN <<>>
    ELSE IF Len(pages) = 1 THEN pages[1].markdown
    ELSE pages[1].markdown \o PageSeparator \o JoinMarkdown(Tail(pages))

\* str.startswith
StartsWith(s, prefix) ==
    Len(s) >= Len(prefix) /\ SubSeq(s, 1, Len(prefix)) = prefix

\* base64.b64encode(file_bytes).decode("utf-8"): four characters for every
\* three bytes, the last group padded.
B64Encode(bytes) == [b64 |-> bytes.id, len |-> 4 * ((bytes.len + 2) \div 3)]

\* ------------------------------------------------------ pieces of the script
\* Mutant of ValidationError: the URL text is compared without strip().
ValidationErrorNoStrip(inp) ==
    IF inp.source_type = "URL" /\ inp.input_url = <<>> THEN UrlError
    ELSE IF inp.source_type = "Local Upload" /\ inp.uploaded_files = <<>> THEN UploadError
    ELSE NoError

\* Lines 102-105: the message of st.error, NoError when the input is accepted.
ValidationError(inp) ==
    IF inp.source_type = "URL" /\ Strip(inp.input_url) = <<>> THEN UrlError
    ELSE IF inp.source_type = "Local Upload" /\ inp.uploaded_files = <<>> THEN UploadError
    ELSE NoError

\* Line 111.
SourcesOf(inp) ==
    IF inp.source_type = "URL" THEN SplitLines(inp.input_url) ELSE inp.uploaded_files

\* The inputs that fail the validation, as the radio and the message they
\* end in (lines 102-105).
Rejections ==
    {[source_type |-> inp.source_type, error |-> ValidationError(inp)] :
        inp \in {i \in Inputs : ValidationError(i) # NoError}}

\* The inputs that pass it, as the radio and the sources of line 111.
Accepted ==
    {[source_type |-> inp.source_type, sources |-> SourcesOf(inp)] :
        inp \in {i \in Inputs : ValidationError(i) = NoError}}

\* Mutant of ExceedsMaxUpload: >= in place of >.
ExceedsOrReachesMaxUpload(file_bytes) == file_bytes.len >= MAX_UPLOAD_MB * (1024 * 1024)

\* Lines 116-118: len(file_bytes) / (1024 * 1024) > MAX_UPLOAD_MB.  The
\* division by 2^20 is exact in binary floating point, so the comparison is
\* the one of the integers.
ExceedsMaxUpload(file_bytes) == file_bytes.len > MAX_UPLOAD_MB * (1024 * 1024)

\* Lines 115, 118: the upload at position idx is skipped.
Skipped(st, source) == st = "Local Upload" /\ ExceedsMaxUpload(source.bytes)

\* Line 119.
SkipWarning(source) ==
    [name |-> source.name, text |-> "exceeds the max upload size. Skipped."]

\* Lines 121-129: the document sent to the service and the preview reference.
Normalize(st, source) ==
    IF st = "Local Upload"
    THEN LET encoded_pdf == B64Encode(source.bytes)
             data_url == [prefix |-> DataUrlPrefix, payload |-> encoded_pdf]
         IN  [document |-> [type |-> "document_url", document_url |-> data_url],
              preview_src |-> data_url]
    ELSE [document |-> [type |-> "document_url", document_url |-> Strip(source)],
          preview_src |-> Strip(source)]

\* Line 139.
PagesOf(ocr_response) ==
    IF ocr_response.kind = "object" /\ "pages" \in DOMAIN ocr_response
    THEN ocr_response.pages
    ELSE IF ocr_response.kind = "list" THEN ocr_response.items ELSE <<>>

\* Mutant of ResultText: the placeholder of line 140 is left out.
ResultTextNoPlaceholder(pages) == JoinMarkdown(pages)

\* Line 140, when every page has markdown.
ResultText(pages) ==
    IF JoinMarkdown(pages) # <<>> THEN JoinMarkdown(pages) ELSE NoResultFound

\* Line 142.
ErrorText(msg) == ErrorPrefix \o msg

\* Mutant of OcrItem: no except clause, an exception of the call leaves the loop.
OcrItemNoCatch(o) ==
    IF o.kind = "raise"
    THEN [result_text |-> ErrorText(o.msg), events |-> <<"ocr">>, uncaught |-> TRUE]
    ELSE IF \E i \in DOMAIN PagesOf(o) : "markdown" \notin DOMAIN PagesOf(o)[i]
    THEN [result_text |-> ErrorText(AttributeErrorMsg),
          events |-> <<"ocr", "sleep">>, uncaught |-> TRUE]
    ELSE [result_text |-> ResultText(PagesOf(o)),
          events |-> <<"ocr", "sleep">>, uncaught |-> FALSE]

\* Lines 132-142: the try block on one outcome of the service.  The call is
\* made; the sleep of line 138 runs only when the call returned; every
\* Exception, of the call or of the extraction, ends in line 142.
OcrItem(o) ==
    IF o.kind = "raise"
    THEN [result_text |-> ErrorText(o.msg), events |-> <<"ocr">>, uncaught |-> FALSE]
    ELSE IF \E i \in DOMAIN PagesOf(o) : "markdown" \notin DOMAIN PagesOf(o)[i]
    THEN [result_text |-> ErrorText(AttributeErrorMsg),
          events |-> <<"ocr", "sleep">>, uncaught |-> FALSE]
    ELSE [result_text |-> ResultText(PagesOf(o)),
          events |-> <<"ocr", "sleep">>, uncaught |-> FALSE]

\* Mutant of Appended: insert(0, x) in place of append(x).
Prepended(seq, x) == <<x>> \o seq

\* Lines 144-145: list.append.
Appended(seq, x) == Append(seq, x)

\* Lines 148-153: the display loop reads preview_src[idx] for every idx of
\* ocr_result; an index out of range ends the run with an IndexError.
Display(results, previews) ==
    IF \A i \in DOMAIN results : i \in DOMAIN previews THEN "idle" ELSE "index_error"

\* ------------------------------------------------------------------ state
VARIABLES
    ocr_result,       \* st.session_state["ocr_result"]
    preview_src,      \* st.session_state["preview_src"]
    reset_uploader,   \* st.session_state["reset_uploader"]
    source_type,      \* the radio of line 72
    clicked,          \* the button that triggered the run: process_clicked, clear_clicked
    sources,          \* line 111
    idx,              \* position of the loop of line 113, from 1
    pc,               \* "idle", "loop", "raised" (uncaught exception), "index_error"
    submitted,        \* the calls of client.ocr.process made by this run, in order
    events,           \* "ocr" and "sleep", in the order this run performed them
    warnings,         \* the st.warning messages of this run
    errors,           \* the st.error message of this run, NoError when none
    had_results,      \* history: ocr_result was non-empty when this run began
    clears            \* history: the number of runs triggered by "Clear All"

session == <<ocr_result, preview_src, reset_uploader>>
vars == <<ocr_result, preview_src, reset_uploader, source_type, clicked, sources,
          idx, pc, submitted, events, warnings, errors, had_results, clears>>

\* Lines 64-75: a new session, before the first click.
Init ==
    /\ ocr_result = <<>>
    /\ preview_src = <<>>
    /\ reset_uploader = 0
    /\ source_type = "URL"
    /\ clicked = "none"
    /\ sources = <<>>
    /\ idx = 1
    /\ pc = "idle"
    /\ submitted = <<>>
    /\ events = <<>>
    /\ warnings = <<>>
    /\ errors = NoError
    /\ had_results = FALSE
    /\ clears = 0

\* A run starts only when no run is in its loop.
CanRun == pc # "loop"

\* Mutant of ClearRerun: line 98 is left out.
ClearRerunNoIncrement ==
    /\ CanRun
    /\ clears < MaxClears
    /\ ocr_result' = <<>>
    /\ preview_src' = <<>>
    /\ clicked' = "Clear All"
    /\ sources' = <<>>
    /\ idx' = 1
    /\ submitted' = <<>>
    /\ events' = <<>>
    /\ warnings' = <<>>
    /\ errors' = NoError
    /\ had_results' = (ocr_result # <<>>)
    /\ clears' = clears + 1
    /\ pc' = Display(ocr_result', preview_src')
    /\ UNCHANGED <<reset_uploader, source_type>>

\* Lines 95-98: the run triggered by "Clear All".
ClearRerun ==
    /\ CanRun
    /\ clears < MaxClears
    /\ ocr_result' = <<>>
    /\ preview_src' = <<>>
    /\ reset_uploader' = reset_uploader + 1
    /\ clicked' = "Clear All"
    /\ sources' = <<>>
    /\ idx' = 1
    /\ submitted' = <<>>
    /\ events' = <<>>
    /\ warnings' = <<>>
    /\ errors' = NoError
    /\ had_results' = (ocr_result # <<>>)
    /\ clears' = clears + 1
    /\ pc' = Display(ocr_result', preview_src')
    /\ UNCHANGED source_type

\* Lines 101-105: the run triggered by "Process" on an input that fails the
\* validation.
ProcessReject ==
    /\ CanRun
    /\ \E rej \in Rejections :
        /\ source_type' = rej.source_type
        /\ errors' = rej.error
    /\ clicked' = "Process"
    /\ sources' = <<>>
    /\ idx' = 1
    /\ submitted' = <<>>
    /\ events' = <<>>
    /\ warnings' = <<>>
    /\ had_results' = (ocr_result # <<>>)
    /\ pc' = Display(ocr_result, preview_src)
    /\ UNCHANGED <<session, clears>>

\* Mutant of ProcessStartWith: lines 108-109 are left out.
ProcessStartNoReset(accepted) ==
    /\ CanRun
    /\ \E acc \in accepted :
        /\ source_type' = acc.source_type
        /\ sources' = acc.sources
    /\ clicked' = "Process"
    /\ idx' = 1
    /\ submitted' = <<>>
    /\ events' = <<>>
    /\ warnings' = <<>>
    /\ errors' = NoError
    /\ had_results' = (ocr_result # <<>>)
    /\ pc' = "loop"
    /\ UNCHANGED <<session, clears>>

\* Lines 101-111: the run triggered by "Process" on an input that passes the
\* validation, up to the loop; the input drawn from accepted.
ProcessStartWith(accepted) ==
    /\ CanRun
    /\ \E acc \in accepted :
        /\ source_type' = acc.source_type
        /\ sources' = acc.sources
    /\ ocr_result' = <<>>
    /\ preview_src' = <<>>
    /\ clicked' = "Process"
    /\ idx' = 1
    /\ submitted' = <<>>
    /\ events' = <<>>
    /\ warnings' = <<>>
    /\ errors' = NoError
    /\ had_results' = (ocr_result # <<>>)
    /\ pc' = "loop"
    /\ UNCHANGED <<reset_uploader, clears>>

ProcessStart == ProcessStartWith(Accepted)

\* After the iteration at idx: the next iteration, or the end of the loop
\* and the display of lines 148-153.
AfterItem(results, previews) ==
    IF idx < Len(sources) THEN "loop" ELSE Display(results, previews)

\* Mutant of ItemSkip: the preview reference is appended before the size check.
ItemSkipKeepsPreview ==
    /\ pc = "loop"
    /\ idx <= Len(sources)
    /\ Skipped(source_type, sources[idx])
    /\ warnings' = Append(warnings, SkipWarning(sources[idx]))
    /\ preview_src' = Appended(preview_src, Normalize(source_type, sources[idx]).preview_src)
    /\ idx' = idx + 1
    /\ pc' = AfterItem(ocr_result, preview_src')
    /\ UNCHANGED <<ocr_result, reset_uploader, source_type, clicked, sources,
                   submitted, events, errors, had_results, clears>>

\* Lines 113-120: an iteration on an upload over the limit.
ItemSkip ==
    /\ pc = "loop"
    /\ idx <= Len(sources)
    /\ Skipped(source_type, sources[idx])
    /\ warnings' = Append(warnings, SkipWarning(sources[idx]))
    /\ idx' = idx + 1
    /\ pc' = AfterItem(ocr_result, preview_src)
    /\ UNCHANGED <<session, source_type, clicked, sources, submitted, events,
                   errors, had_results, clears>>

\* Mutant of ItemProcessWith: the except clause records nothing for the item.
ItemProcessDropsErrors(outcomes) ==
    /\ pc = "loop"
    /\ idx <= Len(sources)
    /\ ~Skipped(source_type, sources[idx])
    /\ \E o \in outcomes :
        LET n == Normalize(source_type, sources[idx])
            r == OcrItem(o)
        IN  /\ submitted' = Append(submitted, [document |-> n.document, outcome |-> o])
            /\ events' = events \o r.events
            /\ IF StartsWith(r.result_text, ErrorPrefix)
               THEN /\ pc' = AfterItem(ocr_result, preview_src)
                    /\ UNCHANGED <<ocr_result, preview_src>>
               ELSE /\ ocr_result' = Appended(ocr_result, r.result_text)
                    /\ preview_src' = Appended(preview_src, n.preview_src)
                    /\ pc' = AfterItem(ocr_result', preview_src')
    /\ idx' = idx + 1
    /\ UNCHANGED <<reset_uploader, source_type, clicked, sources, warnings,
                   errors, had_results, clears>>

\* Lines 113-145: an iteration that submits its source, the service's outcome
\* drawn from outcomes.
ItemProcessWith(outcomes) ==
    /\ pc = "loop"
    /\ idx <= Len(sources)
    /\ ~Skipped(source_type, sources[idx])
    /\ \E o \in outcomes :
        LET n == Normalize(source_type, sources[idx])
            r == OcrItem(o)
        IN  /\ submitted' = Append(submitted, [document |-> n.document, outcome |-> o])
            /\ events' = events \o r.events
            /\ IF r.uncaught
               THEN /\ pc' = "raised"
                    /\ UNCHANGED <<ocr_result, preview_src>>
               ELSE /\ ocr_result' = Appended(ocr_result, r.result_text)
                    /\ preview_src' = Appended(preview_src, n.preview_src)
                    /\ pc' = AfterItem(ocr_result', preview_src')
    /\ idx' = idx + 1
    /\ UNCHANGED <<reset_uploader, source_type, clicked, sources, warnings,
                   errors, had_results, clears>>

ItemProcess == ItemProcessWith(BatchOutcomes)

Next ==
    \/ ClearRerun
    \/ ProcessReject
    \/ ProcessStart
    \/ ItemSkip
    \/ ItemProcess

Spec == Init /\ [][Next]_vars

\* ---------------------------------------- the extraction of lines 139-140 alone
\* The accepted inputs of one line of URL text.
AcceptedLines == {acc \in Accepted : acc.source_type = "URL" /\ Len(acc.sources) = 1}

ProcessStartLine == ProcessStartWith(AcceptedLines)

ItemProcessAny == ItemProcessWith(AllOutcomes)

NextExtract ==
    \/ ProcessStartLine
    \/ ItemProcessAny

\* Batches of one URL, the service's outcome drawn from every shape of
\* response with up to MaxPages pages.
SpecExtract == Init /\ [][NextExtract]_vars

\* ------------------------------------------------------------- statements
\* This run was triggered by "Process" and passed the validation.
Validated == clicked = "Process" /\ errors = NoError

\* Such a run has ended.
Done == Validated /\ pc = "idle"

\* The call of the service raises, or the extraction of its response does.
Raises(o) ==
    \/ o.kind = "raise"
    \/ /\ o.kind = "object" /\ "pages" \in DOMAIN o
       /\ \E i \in DOMAIN o.pages : "markdown" \notin DOMAIN o.pages[i]
    \/ /\ o.kind = "list"
       /\ \E i \in DOMAIN o.items : "markdown" \notin DOMAIN o.items[i]

\* The source is an upload of more than MAX_UPLOAD_MB megabytes.
Oversized(source) ==
    source_type = "Local Upload" /\ source.bytes.len > MAX_UPLOAD_MB * 1048576

\* The record the script keeps for one outcome of the service.
RecordOf(o) == OcrItem(o).result_text

\* C1: per-item failure isolation.  In a run that passed the validation no
\* exception leaves the loop; the record of every submitted item depends on
\* that item's outcome alone: an error string starting with "Error extracting
\* result:" when the call or the extraction raised, its normal text otherwise,
\* whatever happened to the other items; and when the run has ended every
\* item that was not skipped has its record.
C1_FailureIsolation ==
    /\ pc # "raised"
    /\ Validated =>
        /\ Len(ocr_result) = Len(submitted)
        /\ \A k \in DOMAIN submitted :
            IF Raises(submitted[k].outcome)
            THEN StartsWith(ocr_result[k], ErrorPrefix)
            ELSE ocr_result[k] = ResultText(PagesOf(submitted[k].outcome))
    /\ Done => Len(ocr_result) = Len(sources) - Len(warnings)

\* A batch of three has ended in which the service raised on item 2 only.
C1_Witness ==
    /\ Done
    /\ Len(submitted) = 3
    /\ ~Raises(submitted[1].outcome)
    /\ submitted[2].outcome.kind = "raise"
    /\ ~Raises(submitted[3].outcome)
    /\ ocr_result[3] = <<"x">>

\* C2: in a batch without oversized items the i-th record and the i-th
\* preview reference are those of the i-th source, the sources are submitted
\* one at a time in input order, and at the end of the run there are as many
\* records as sources.
C2_LengthAndOrder ==
    (Validated /\ \A i \in DOMAIN sources : ~Oversized(sources[i])) =>
        /\ Len(ocr_result) = idx - 1
        /\ Len(preview_src) = idx - 1
        /\ Len(submitted) = idx - 1
        /\ \A i \in 1..(idx - 1) :
            /\ submitted[i].document = Normalize(source_type, sources[i]).document
            /\ preview_src[i] = Normalize(source_type, sources[i]).preview_src
            /\ ocr_result[i] = RecordOf(submitted[i].outcome)
        /\ pc = "idle" => Len(ocr_result) = Len(sources)

\* A batch of two different sources with two different records has ended.
C2_Witness ==
    /\ Done
    /\ Len(sources) = 2
    /\ ~Oversized(sources[1]) /\ ~Oversized(sources[2])
    /\ preview_src[1] # preview_src[2]
    /\ ocr_result[1] # ocr_result[2]

\* C3: a run that passed the validation replaces the results: the result and
\* preview sequences hold the records of this run's submissions and nothing
\* else, whatever they held when the run began.
C3_ProcessReplaces ==
    Validated =>
        /\ Len(ocr_result) = Len(submitted)
        /\ Len(preview_src) = Len(submitted)
        /\ \A i \in DOMAIN submitted :
            /\ ocr_result[i] = RecordOf(submitted[i].outcome)
            /\ preview_src[i] = submitted[i].document.document_url

\* A batch of one URL has ended in a session that held results when it began.
C3_Witness ==
    /\ Done
    /\ had_results
    /\ source_type = "URL"
    /\ Len(sources) = 1
    /\ Len(ocr_result) = 1

\* C4: in every state the result sequence and the preview sequence have the
\* same length, the display loop never reads preview_src out of range, and
\* in a run that passed the validation the entries at one index come from
\* one submission.
C4_Aligned ==
    /\ Len(ocr_result) = Len(preview_src)
    /\ pc # "index_error"
    /\ Validated =>
        \A i \in DOMAIN ocr_result :
            /\ i \in DOMAIN submitted
            /\ preview_src[i] = submitted[i].document.document_url
            /\ StartsWith(ocr_result[i], ErrorPrefix) \/ ~Raises(submitted[i].outcome)

\* A batch with a skipped item and a failed item has ended, after a clear.
C4_Witness ==
    /\ Done
    /\ reset_uploader > 0
    /\ warnings # <<>>
    /\ ocr_result # <<>>
    /\ \E k \in DOMAIN submitted : Raises(submitted[k].outcome)

\* C5: of the uploads the loop has passed, those over the limit got a
\* warning each, in order, and nothing else: no submission, no record, no
\* preview reference; the others, one exactly at the limit included, were
\* submitted in order and have a record and a preview reference each.
C5_OversizedSkipped ==
    (Validated /\ source_type = "Local Upload") =>
        LET seen == SubSeq(sources, 1, idx - 1)
            Over(f) == f.bytes.len > MAX_UPLOAD_MB * 1048576
            Fits(f) == f.bytes.len <= MAX_UPLOAD_MB * 1048576
            dropped == SelectSeq(seen, Over)
            kept == SelectSeq(seen, Fits)
        IN  /\ Len(warnings) = Len(dropped)
            /\ \A j \in DOMAIN dropped : warnings[j].name = dropped[j].name
            /\ Len(submitted) = Len(kept)
            /\ Len(ocr_result) = Len(kept)
            /\ Len(preview_src) = Len(kept)
            /\ \A j \in DOMAIN kept :
                /\ submitted[j].document.document_url.payload.b64 = kept[j].bytes.id
                /\ preview_src[j].payload.b64 = kept[j].bytes.id
            /\ pc = "idle" => idx - 1 = Len(sources)

\* A batch of an upload over the limit followed by one exactly at the limit
\* has ended with one record.
C5_Witness ==
    /\ Done
    /\ source_type = "Local Upload"
    /\ Len(sources) = 2
    /\ sources[1].bytes.len = MAX_UPLOAD_MB * 1048576 + 1
    /\ sources[2].bytes.len = MAX_UPLOAD_MB * 1048576
    /\ Len(warnings) = 1
    /\ Len(ocr_result) = 1

\* C6 as stated: every run that passed the validation ends with a non-empty
\* result sequence, and a session that held results is empty after a run only
\* when the run was triggered by "Clear All".
C6_AlwaysPopulated ==
    /\ Done => ocr_result # <<>>
    /\ (pc = "idle" /\ had_results /\ ocr_result = <<>>) => clicked = "Clear All"

\* C6 as amended: a run that passed the validation ends with a non-empty
\* result sequence exactly when one of its sources was not an oversized
\* upload, errors included; a session that held results is empty after a run
\* only when the run was triggered by "Clear All" or was such a run with
\* every source an oversized upload.
C6_PopulatedUnlessAllSkipped ==
    /\ Done => (ocr_result # <<>> <=> \E i \in DOMAIN sources : ~Oversized(sources[i]))
    /\ (pc = "idle" /\ had_results /\ ocr_result = <<>>) =>
        \/ clicked = "Clear All"
        \/ Done /\ \A i \in DOMAIN sources : Oversized(sources[i])

\* A batch of two has ended in which every item failed.
C6_Witness ==
    /\ Done
    /\ Len(submitted) = 2
    /\ \A k \in DOMAIN submitted : Raises(submitted[k].outcome)
    /\ Len(ocr_result) = 2

\* The sources of a run are those of a blank input.
BlankSources(st, srcs) ==
    IF st = "URL"
    THEN \A i \in DOMAIN srcs : \A j \in DOMAIN srcs[i] : srcs[i][j] \in {" ", "\n"}
    ELSE srcs = <<>>

\* C7: a run triggered by "Process" either shows a validation error, and
\* then leaves the result sequence, the preview sequence and the uploader
\* counter as they were and calls the service not once, or has an input
\* that is not blank: a blank input is always rejected.
C7_BlankRejected ==
    [][(CanRun /\ clicked' = "Process") =>
        IF errors' # NoError
        THEN /\ UNCHANGED <<ocr_result, preview_src, reset_uploader>>
             /\ submitted' = <<>>
             /\ events' = <<>>
             /\ pc' = "idle"
        ELSE ~BlankSources(source_type', sources')]_vars

\* A blank URL text was rejected after a clear, and the session is empty.
C7_Witness ==
    /\ clicked = "Process"
    /\ errors = UrlError
    /\ pc = "idle"
    /\ reset_uploader > 0
    /\ ocr_result = <<>>
    /\ preview_src = <<>>

\* C8: a run triggered by "Clear All" empties both sequences and adds one to
\* the uploader counter in one step, no other step changes the counter, and
\* the counter is the number of such runs.
C8_ClearCounter ==
    /\ [](reset_uploader = clears)
    /\ [][IF clears' # clears
          THEN /\ clears' = clears + 1
               /\ reset_uploader' = reset_uploader + 1
               /\ ocr_result' = <<>>
               /\ preview_src' = <<>>
          ELSE reset_uploader' = reset_uploader]_vars

\* The second clear of a session, on a session that held results.
C8_Witness ==
    /\ clicked = "Clear All"
    /\ had_results
    /\ reset_uploader = 2
    /\ ocr_result = <<>>
    /\ preview_src = <<>>

\* The page texts joined by a blank line, folded from the left.
JoinedLeft(pages) ==
    LET f[k \in 0..Len(pages)] ==
            IF k = 0 THEN <<>>
            ELSE IF k = 1 THEN pages[1].markdown
            ELSE f[k - 1] \o <<"\n", "\n">> \o pages[k].markdown
    IN  f[Len(pages)]

\* C9: no record is the empty string; and when the call returned and every
\* page has its text, the record is the page texts joined by a blank line,
\* the pages being the pages attribute, the bare list itself, or none, and
\* "No result found." in place of an empty join.
C9_PagesJoined ==
    Validated =>
        \A i \in DOMAIN ocr_result :
            LET o == submitted[i].outcome
                pages == IF o.kind = "object" /\ "pages" \in DOMAIN o THEN o.pages
                         ELSE IF o.kind = "list" THEN o.items
                         ELSE <<>>
            IN  /\ ocr_result[i] # <<>>
                /\ ~Raises(o) =>
                    ocr_result[i] =
                        IF JoinedLeft(pages) = <<>> THEN NoResultFound ELSE JoinedLeft(pages)

\* The service returned an object whose page sequence is empty.
C9_Witness ==
    /\ Done
    /\ Len(submitted) = 1
    /\ submitted[1].outcome = [kind |-> "object", pages |-> <<>>]
    /\ ocr_result = <<NoResultFound>>

\* C10 as stated: in a run, every call of the service is followed by the
\* sleep before anything else happens, so no two calls are made without a
\* sleep between them.
C10_DelayBetweenSubmissions ==
    \A i \in DOMAIN events :
        (events[i] = "ocr" /\ i < Len(events)) => events[i + 1] = "sleep"

====
